---- MODULE Spec2Model ----
(***************************************************************************)
(* A model of social-auto-upload's two entry points:                       *)
(*                                                                         *)
(*   - cli_main.main, the Task Router: argument parsing, pre-flight        *)
(*     validation, credential-path resolution and the sequential           *)
(*     login/upload dispatch (specification Spec);                         *)
(*   - VideoPreprocessor.process_directory, the Metadata Normalizer: the   *)
(*     per-file clean / rename / describe / write loop (specification      *)
(*     SpecNormalizer);                                                    *)
(*   - VideoPreprocessor._clean_filename as a pure function over bounded   *)
(*     inputs (specification SpecClean).                                   *)
(*                                                                         *)
(* A text is a sequence of one-character strings.  File names hold no      *)
(* line terminator, so the regular expression '.' matches every character  *)
(* of a name.                                                              *)
(***************************************************************************)
EXTENDS Integers, Sequences, FiniteSets, TLC

VARIABLES
    \* ---- Task Router (cli_main.main) ----
    pc,            \* position of main()
    args,          \* the argparse namespace
    fs,            \* the files that exist on disk
    cookiesDir,    \* whether <base>/cookies exists
    video_files,   \* main's local video_files
    validated,     \* the list resolved by validation and how far the existence
                   \* check (lines 77-79) went on it
    gvf,           \* the frame of get_video_files while main is inside it
    fs_changed,    \* whether another process changed the files since the start
    idx,           \* position of the upload loop in video_files (1-based)
    publish_date,  \* main's local publish_date
    inflight,      \* adapter calls awaited and not yet returned
    outcome,       \* how the process ended
    trace,         \* the side effects and adapter calls, in order
    \* ---- Metadata Normalizer (process_directory) ----
    npc,           \* position of process_directory()
    config,        \* self.config
    video_dir,     \* whether config['video_directory'] exists
    videos,        \* stem -> identity of the .mp4 file of that name in the directory
    sidecars,      \* stem -> bytes of the .txt file of that name
    listing,       \* what video_dir.glob("*.mp4") yields, in its order
    ni,            \* position of the loop in listing (1-based)
    new_name,      \* process_directory's local new_name
    description,   \* process_directory's local description
    nlog,          \* per listed file: what happened to it
    \* ---- _clean_filename alone ----
    cpc, cin, cout

routerVars == <<pc, args, fs, cookiesDir, video_files, validated, gvf,
                fs_changed, idx, publish_date, inflight, outcome, trace>>
normVars   == <<npc, config, video_dir, videos, sidecars, listing, ni, new_name,
                description, nlog>>
cleanVars  == <<cpc, cin, cout>>
vars       == <<routerVars, normVars, cleanVars>>

None == "None"

Min(a, b) == IF a < b THEN a ELSE b
Max(a, b) == IF a > b THEN a ELSE b

(***************************************************************************)
(* Bounds of the model.                                                    *)
(***************************************************************************)
MaxFiles   == 3     \* longest --files list
MaxStemLen == 3     \* longest stem given to _clean_filename in SpecClean
MaxLenCap  == 3     \* largest configured max_filename_length
MaxVideos  == 2     \* most .mp4 files in the Normalizer's directory

(***************************************************************************)
(* Python str and re primitives used by _clean_filename.                   *)
(***************************************************************************)

\* \w of the re module, on the characters of the model.
WordChars  == {"a", "b", "c", "x", "_", "7", "4",
               "C", "F", "S", "T", "e", "g", "h", "i", "k", "m", "n", "o",
               "p", "r", "t", "y"}
\* \s of the re module, and the characters str.strip() removes.
SpaceChars == {" "}

\* s[i:] of Python with a 1-based i.
Drop(s, i) == SubSeq(s, i, Len(s))

\* Whether lit occurs in s at position p (1-based).
OccursAt(s, lit, p) ==
    /\ p >= 1
    /\ p + Len(lit) - 1 <= Len(s)
    /\ SubSeq(s, p, p + Len(lit) - 1) = lit

\* The least q >= p at which lit occurs in s, 0 when there is none.
RECURSIVE Find(_, _, _)
Find(s, lit, p) ==
    IF p + Len(lit) - 1 > Len(s) THEN 0
    ELSE IF OccursAt(s, lit, p) THEN p
    ELSE Find(s, lit, p + 1)

\* str.replace(pattern, ''): every non-overlapping occurrence, left to right.
RECURSIVE StrRemove(_, _)
StrRemove(s, lit) ==
    IF lit = <<>> THEN s
    ELSE LET q == Find(s, lit, 1)
         IN  IF q = 0 THEN s
             ELSE SubSeq(s, 1, q - 1) \o StrRemove(Drop(s, q + Len(lit)), lit)

\* str.replace(old, new) for a one-character old.
RECURSIVE StrReplaceChar(_, _, _)
StrReplaceChar(s, old, new) ==
    IF s = <<>> THEN <<>>
    ELSE (IF Head(s) = old THEN new ELSE <<Head(s)>>)
         \o StrReplaceChar(Tail(s), old, new)

\* The characters re.escape puts a backslash before (those of the model).
ReSpecial == {"(", ")", "[", "]", "{", "}", "?", "*", "+", "-", "|", "^", "$",
              "\\", ".", "&", "~", "#", " "}

\* re.escape(s).
RECURSIVE ReEscape(_)
ReEscape(s) ==
    IF s = <<>> THEN <<>>
    ELSE (IF Head(s) \in ReSpecial THEN <<"\\", Head(s)>> ELSE <<Head(s)>>)
         \o ReEscape(Tail(s))

\* str.replace(old, new) for any non-empty old.
RECURSIVE StrReplace(_, _, _)
StrReplace(s, old, new) ==
    LET q == Find(s, old, 1)
    IN  IF q = 0 THEN s
        ELSE SubSeq(s, 1, q - 1) \o new
             \o StrReplace(Drop(s, q + Len(old)), old, new)

LazyAny    == <<".", "*", "?">>
EscLazyAny == <<"\\", ".", "\\", "*", "\\", "?">>

\* A variant of the conversion that leaves the literal text unescaped.
RegexPatternUnescaped(pattern) == StrReplaceChar(pattern, "*", LazyAny)

\* Lines 100-101: the regular expression text built from a wildcard pattern.
RegexPattern(pattern) ==
    StrReplace(ReEscape(StrReplaceChar(pattern, "*", LazyAny)), EscLazyAny, LazyAny)

(***************************************************************************)
(* The regular expressions RegexPattern builds are escaped literals joined *)
(* by the lazy wildcard.  ParseRegex reads such a text back into its       *)
(* literal segments: a backslash quotes the next character, an unquoted    *)
(* ".*?" separates two segments.                                           *)
(***************************************************************************)
RECURSIVE ParseRegex(_, _, _)
ParseRegex(rx, segs, lit) ==
    IF rx = <<>> THEN Append(segs, lit)
    ELSE IF Head(rx) = "\\" /\ Len(rx) >= 2
         THEN ParseRegex(Drop(rx, 3), segs, Append(lit, rx[2]))
    ELSE IF OccursAt(rx, LazyAny, 1)
         THEN ParseRegex(Drop(rx, 4), Append(segs, lit), <<>>)
    ELSE ParseRegex(Tail(rx), segs, Append(lit, Head(rx)))

\* The end (the position after the last matched character) of the match of
\* segs[i..] with every wildcard taking as little as it can, the text before
\* position e being matched already; 0 when there is no match.
RECURSIVE MatchRest(_, _, _, _)
MatchRest(s, segs, i, e) ==
    IF i > Len(segs) THEN e
    ELSE LET q == Find(s, segs[i], e)
         IN  IF q = 0 THEN 0 ELSE MatchRest(s, segs, i + 1, q + Len(segs[i]))

\* The end of the match the re module finds starting exactly at p, 0 when
\* there is none.  Under must_advance an empty match is refused and the
\* last lazy wildcard takes one character more.
MatchAt(s, segs, p, must_advance) ==
    IF ~OccursAt(s, segs[1], p) THEN 0
    ELSE LET e == MatchRest(s, segs, 2, p + Len(segs[1]))
         IN  IF e = p /\ must_advance
             THEN (IF Len(segs) >= 2 /\ p <= Len(s) THEN p + 1 ELSE 0)
             ELSE e

\* re.sub(regex, '', s) from position pos on: the scan of sre's pattern_subx.
RECURSIVE ReSubFrom(_, _, _, _, _)
ReSubFrom(s, segs, pos, b, must_advance) ==
    IF b > Len(s) + 1 THEN Drop(s, pos)
    ELSE LET e == MatchAt(s, segs, b, must_advance)
         IN  IF e = 0 THEN ReSubFrom(s, segs, pos, b + 1, FALSE)
             ELSE SubSeq(s, pos, b - 1) \o ReSubFrom(s, segs, e, e, e = b)

ReSub(regex, s) == ReSubFrom(s, ParseRegex(regex, <<>>, <<>>), 1, 1, FALSE)

\* str.strip().
RECURSIVE LStrip(_)
LStrip(s) == IF s # <<>> /\ Head(s) \in SpaceChars THEN LStrip(Tail(s)) ELSE s

RECURSIVE RStrip(_)
RStrip(s) ==
    IF s # <<>> /\ s[Len(s)] \in SpaceChars
    THEN RStrip(SubSeq(s, 1, Len(s) - 1)) ELSE s

Strip(s) == LStrip(RStrip(s))

\* s[:n] of Python.
SlicePrefix(s, n) ==
    IF n >= 0 THEN SubSeq(s, 1, Min(n, Len(s)))
    ELSE SubSeq(s, 1, Max(Len(s) + n, 0))

(***************************************************************************)
(* VideoPreprocessor._clean_filename (video_preprocessor.py 91-119).       *)
(***************************************************************************)

DefaultMaxLen == 100

\* What openai.ChatCompletion.create gives a request: it raises, or it
\* returns a text.
Raised == <<"raised">>
Returned(text) == <<"returned", text>>

\* Lines 96-105, for one pattern.
ApplyPattern(name, pattern) ==
    IF \E i \in 1..Len(pattern) : pattern[i] = "*"
    THEN ReSub(RegexPattern(pattern), name)
    ELSE StrRemove(name, pattern)

\* Lines 96-105: the patterns applied in the configured order.
RECURSIVE ApplyPatterns(_, _)
ApplyPatterns(name, patterns) ==
    IF patterns = <<>> THEN name
    ELSE ApplyPatterns(ApplyPattern(name, Head(patterns)), Tail(patterns))

\* _translate_text (lines 35-60): the stripped answer, or the text itself
\* when the request raised.
TranslateText(text, reply) ==
    IF reply = Raised THEN text ELSE Strip(reply[2])

\* Line 112: re.sub(r'[^\w\s\-\.]', '', name).
KeptChar(c) == c \in WordChars \cup SpaceChars \cup {"-", "."}
StripSpecial(name) == SelectSeq(name, KeptChar)

\* Lines 115-117.
ConfiguredMaxLen(cfg) ==
    IF "max_filename_length" \in DOMAIN cfg THEN cfg.max_filename_length
    ELSE DefaultMaxLen

\* A variant of the truncation that keeps one character too many.
TruncateOffByOne(name, max_length) ==
    IF Len(name) > max_length THEN SlicePrefix(name, max_length + 1) ELSE name

\* A variant of the truncation that keeps the last characters.
TruncateKeepEnd(name, max_length) ==
    IF Len(name) > max_length
    THEN SubSeq(name, Len(name) - max_length + 1, Len(name)) ELSE name

Truncate(name, max_length) ==
    IF Len(name) > max_length THEN SlicePrefix(name, max_length) ELSE name

\* Lines 93-112: the name as it is when the length limit is applied, reply
\* being what the translation request gives when one is made.
BeforeTruncation(filename, cfg, reply) ==
    LET removed    == ApplyPatterns(filename, cfg.remove_patterns)
        translated == IF cfg.translate_to_chinese
                      THEN TranslateText(removed, reply) ELSE removed
    IN  StripSpecial(translated)

\* _clean_filename(filename) under configuration cfg.
CleanFilename(filename, cfg, reply) ==
    Strip(Truncate(BeforeTruncation(filename, cfg, reply),
                   ConfiguredMaxLen(cfg)))

\* The fixed text of the fallback description (line 89), its six CJK
\* characters written by code point.
FallbackPrefix ==
    <<"u65E0", "u6CD5", "u751F", "u6210", "u63CF", "u8FF0", ":", " ">>

\* The Unicode code point of each character a description can hold.
CodePoints ==
    { <<"a", 97>>, <<"b", 98>>, <<"c", 99>>, <<"x", 120>>, <<"_", 95>>,
      <<"7", 55>>, <<"C", 67>>, <<"F", 70>>, <<"S", 83>>, <<"T", 84>>,
      <<"e", 101>>, <<"g", 103>>, <<"h", 104>>, <<"i", 105>>, <<"k", 107>>,
      <<"n", 110>>, <<"o", 111>>, <<"p", 112>>, <<"r", 114>>, <<"t", 116>>,
      <<"y", 121>>, <<" ", 32>>, <<"-", 45>>, <<".", 46>>, <<"#", 35>>,
      <<":", 58>>, <<"m", 109>>, <<"4", 52>>,
      <<"u65E0", 26080>>, <<"u6CD5", 27861>>, <<"u751F", 29983>>,
      <<"u6210", 25104>>, <<"u63CF", 25551>>, <<"u8FF0", 36848>> }
CodePoint(c) == (CHOOSE p \in CodePoints : p[1] = c)[2]

\* The bytes of one character under encoding='utf-8' (line 149): one byte
\* below U+0080, two below U+0800, three below U+10000.
Utf8(c) ==
    LET cp == CodePoint(c)
    IN  IF cp < 128 THEN <<cp>>
        ELSE IF cp < 2048 THEN <<192 + (cp \div 64), 128 + (cp % 64)>>
        ELSE <<224 + (cp \div 4096), 128 + ((cp \div 64) % 64),
               128 + (cp % 64)>>

\* The bytes f.write(text) sends to a file opened with encoding='utf-8'.
RECURSIVE Encode(_)
Encode(text) ==
    IF text = <<>> THEN <<>> ELSE Utf8(Head(text)) \o Encode(Tail(text))

(***************************************************************************)
(* Inputs of the model.                                                    *)
(***************************************************************************)

\* The characters stems are made of: a word character, a blank, two
\* characters line 112 strips (both regex metacharacters), and the dot.
StemChars == {"a", " ", "[", "]", "."}

RECURSIVE TextsUpTo(_, _)
TextsUpTo(chars, n) ==
    IF n = 0 THEN {<<>>}
    ELSE LET shorter == TextsUpTo(chars, n - 1)
         IN  shorter \cup {Append(t, c) : t \in shorter, c \in chars}

\* remove_patterns of the configuration file.
PatternLists ==
    { <<>>,
      << <<"[", "*", "]">> >>,
      << <<"a">> >>,
      << <<"*">> >>,
      << <<"a", "*">> >>,
      << <<"[", ".", "*", "]">> >>,
      << <<" ", "a">>, <<"[", "*", "]">> >> }

\* A text longer than the default max_filename_length.
LongText == [i \in 1..(DefaultMaxLen + 1) |-> "a"]

\* The stem of "Song [Copyright Free] Track.mp4".
SongExample ==
    <<"S", "o", "n", "g", " ", "[", "C", "o", "p", "y", "r", "i", "g", "h",
      "t", " ", "F", "r", "e", "e", "]", " ", "T", "r", "a", "c", "k">>

\* The stems _clean_filename is called on.
CleanInputs == TextsUpTo(StemChars, MaxStemLen) \cup {SongExample}

\* What the translation request can give.
TranslationReplies ==
    { Raised,
      Returned(<<"a", " ", "a", "a", "b">>),
      Returned(<<" ", "[", "b", " ", " ", "c">>),
      Returned(<<>>),
      Returned(LongText) }

\* The configuration file, with and without its max_filename_length key.
Configs ==
    [remove_patterns : PatternLists, translate_to_chinese : BOOLEAN,
     max_filename_length : 0..MaxLenCap]
    \cup [remove_patterns : PatternLists, translate_to_chinese : BOOLEAN]

(***************************************************************************)
(* SpecClean: _clean_filename called once on any input of the model.       *)
(***************************************************************************)
NoCleanInput == <<>>

CleanIdle == cpc = "idle" /\ cin = NoCleanInput /\ cout = <<>>

CleanInit == cpc = "input" /\ cin = NoCleanInput /\ cout = <<>>

\* The caller passes a stem; the translation service's answer is fixed by
\* the environment.
CleanCall ==
    /\ UNCHANGED <<routerVars, normVars>>
    /\ cpc = "input"
    /\ \E f \in CleanInputs, c \in Configs,
          r \in TranslationReplies :
          /\ (~c.translate_to_chinese => r = Raised)
          /\ cin' = [filename |-> f, config |-> c, reply |-> r]
    /\ cpc' = "called"
    /\ UNCHANGED cout

CleanReturn ==
    /\ UNCHANGED <<routerVars, normVars>>
    /\ cpc = "called"
    /\ cout' = CleanFilename(cin.filename, cin.config, cin.reply)
    /\ cpc' = "done"
    /\ UNCHANGED cin

CleanNext == CleanCall \/ CleanReturn

(***************************************************************************)
(* The Task Router, cli_main.py.                                           *)
(*                                                                         *)
(* Paths are relative to the working directory.  The directory "d" always  *)
(* exists; "nodir" never does; fs holds the files that exist.  Matching    *)
(* by Path.glob is case-sensitive, as it is on a POSIX file system.        *)
(***************************************************************************)

\* Every file the model knows, in ascending order of the path string.
PathOrder == <<"d/B.MP4", "d/a.mp4", "d/n.txt", "d/s/c.mov", "x.mp4">>
Universe  == {PathOrder[i] : i \in 1..Len(PathOrder)}
Dirs      == {"d"}
\* The files that come and go; the others exist throughout.
Volatile  == {"d/B.MP4", "d/a.mp4", "d/s/c.mov"}
Permanent == Universe \ Volatile

\* Path.suffix of each file.
Suffix ==
    [p \in Universe |->
        CASE p = "d/B.MP4"   -> ".MP4"
          [] p = "d/a.mp4"   -> ".mp4"
          [] p = "d/n.txt"   -> ".txt"
          [] p = "d/s/c.mov" -> ".mov"
          [] p = "x.mp4"     -> ".mp4"]

\* str.lower() on the suffixes of the model.
Lower(suffix) == IF suffix = ".MP4" THEN ".mp4" ELSE suffix

\* Whether file p lies, at any depth, under directory dir.  Path("") is the
\* working directory.
Under(dir, p) ==
    CASE dir = ""  -> TRUE
      [] dir = "d" -> p \in {"d/B.MP4", "d/a.mp4", "d/n.txt", "d/s/c.mov"}
      [] OTHER     -> FALSE

\* os.path.exists: exists("") is False.
Exists(path, files) == path \in files \/ path \in Dirs

\* sorted() of a set of paths.
Sorted(paths) == SelectSeq(PathOrder, LAMBDA p : p \in paths)

\* Line 28.
video_extensions == {".mp4", ".mov", ".avi", ".mkv", ".wmv", ".flv"}

\* path.glob(f'**/*{ext}') (line 35).
Glob(path, ext, files) == {p \in files : Under(path, p) /\ Suffix[p] = ext}

\* Line 31: what get_video_files returns for a path that is a file.
SingleFile(path) ==
    IF Lower(Suffix[path]) \in video_extensions THEN <<path>> ELSE <<>>

\* No call of get_video_files is under way.
NoCall == [caller |-> "-", pending |-> {}, found |-> {}]

\* Python truth of an optional string.
Truthy(v) == v # None /\ v # ""

\* datetime.strptime(raw, '%Y-%m-%d %H:%M') on the strings of the model.
WellFormed == {"2024-01-15 10:30"}
Malformed  == {"not-a-date"}
Schedules  == {None, ""} \cup WellFormed \cup Malformed

\* A variant of the parser that gives None for a string it cannot read.
parse_scheduleLenient(schedule_raw) ==
    IF schedule_raw \in WellFormed
    THEN <<"datetime", schedule_raw>> ELSE <<"None">>

\* parse_schedule (lines 18-23); <<"ValueError">> is strptime raising.
parse_schedule(schedule_raw) ==
    IF Truthy(schedule_raw)
    THEN (IF schedule_raw \in WellFormed
          THEN <<"datetime", schedule_raw>> ELSE <<"ValueError">>)
    ELSE <<"None">>

\* get_supported_social_media() and get_cli_action().
Platforms == {"douyin", "tiktok", "tencent", "kuaishou"}
Actions   == {"login", "upload"}
Accounts  == {"xiaoA"}

\* The --files lists and --directory values tried.
FileChoices == {"d/a.mp4", "d/s/c.mov"}
RECURSIVE ListsUpTo(_, _)
ListsUpTo(S, n) ==
    IF n = 0 THEN {<<>>}
    ELSE LET shorter == ListsUpTo(S, n - 1)
         IN  shorter \cup {Append(l, x) : l \in shorter, x \in S}
FileLists == ListsUpTo(FileChoices, MaxFiles) \ {<<>>}
DirChoices == {"", "d", "nodir", "d/B.MP4", "d/n.txt"}

\* Line 84.
AccountFile(platform, account_name) ==
    <<"cookies", platform \o "_" \o account_name \o ".json">>

NoArgs == [action |-> None]

Event(op, i, file, info) == [op |-> op, i |-> i, file |-> file, info |-> info]

AdapterOps == {"setup_call", "setup_return", "setup_raise",
               "job_call", "job_return", "job_raise"}
AdapterEvents(tr) == {k \in 1..Len(tr) : tr[k].op \in AdapterOps}

\* A variant of the existence loop that ends after the first path.
AfterCheckFirstOnly(k, n) == 0

\* Line 77: the position the existence loop goes to after position k of a
\* list of n paths, 0 when the loop is over.
AfterCheck(k, n) == IF k < n THEN k + 1 ELSE 0

\* A variant of the schedule check that only looks for an absent option.
ScheduleCheckAbsentOnly(a) == ~(a.publish_type = 1 /\ a.schedule = None)

\* Lines 81-82.
ScheduleCheck(a) == ~(a.publish_type = 1 /\ ~Truthy(a.schedule))

\* A variant of main that resolves the credential path before validating.
MainStepsResolveFirst == <<"resolve", "validate", "route">>

\* A variant of main that routes before resolving the credential path.
MainStepsRouteFirst == <<"validate", "route", "resolve">>

\* The order of main's steps after parse_args (lines 63-82, 84-85, 88-129).
MainSteps == <<"validate", "resolve", "route">>

StepAfter(step) ==
    LET k == CHOOSE j \in 1..Len(MainSteps) : MainSteps[j] = step
    IN  IF k < Len(MainSteps) THEN MainSteps[k + 1] ELSE "done"

RouterIdle ==
    /\ pc = "idle" /\ args = NoArgs /\ fs = {} /\ cookiesDir = FALSE
    /\ video_files = <<>> /\ validated = <<>> /\ idx = 0
    /\ gvf = NoCall /\ fs_changed = FALSE
    /\ publish_date = <<"None">> /\ inflight = {} /\ outcome = "running"
    /\ trace = <<>>

RouterInit ==
    /\ pc = "parse" /\ args = NoArgs
    /\ fs \in {Permanent \cup v : v \in SUBSET Volatile}
    /\ cookiesDir \in BOOLEAN
    /\ video_files = <<>> /\ validated = <<>> /\ idx = 0
    /\ gvf = NoCall /\ fs_changed = FALSE
    /\ publish_date = <<"None">> /\ inflight = {} /\ outcome = "running"
    /\ trace = <<>>

Exit(how) == pc' = "done" /\ outcome' = how

\* Lines 41-60: parser.parse_args().  argparse itself rejects an unknown
\* platform and an upload with both or neither of --files and --directory.
ParseArgs ==
    /\ UNCHANGED <<normVars, cleanVars>>
    /\ pc = "parse"
    /\ \E platform \in Platforms \cup {"bilibili"}, account_name \in Accounts,
          action \in Actions, files \in FileLists \cup {<<>>},
          directory \in DirChoices \cup {None}, publish_type \in {0, 1},
          schedule \in Schedules :
          IF action = "login"
          THEN /\ files = <<>> /\ directory = None
               /\ publish_type = 0 /\ schedule = None
               /\ IF platform \notin Platforms
                  THEN Exit("UsageError") /\ UNCHANGED args
                  ELSE /\ args' = [platform |-> platform,
                                   account_name |-> account_name,
                                   action |-> action, files |-> files,
                                   directory |-> directory,
                                   publish_type |-> publish_type,
                                   schedule |-> schedule]
                       /\ pc' = MainSteps[1]
                       /\ UNCHANGED outcome
          ELSE IF \/ platform \notin Platforms
                  \/ (files = <<>>) = (directory = None)
               THEN Exit("UsageError") /\ UNCHANGED args
               ELSE /\ args' = [platform |-> platform,
                                account_name |-> account_name,
                                action |-> action, files |-> files,
                                directory |-> directory,
                                publish_type |-> publish_type,
                                schedule |-> schedule]
                    /\ pc' = MainSteps[1]
                    /\ UNCHANGED outcome
    /\ UNCHANGED <<fs, cookiesDir, video_files, validated, gvf, fs_changed,
                   idx, publish_date, inflight, trace>>

\* The record of a resolved list on which the existence check has yet to
\* start.
Resolved(list) == <<[list |-> list, missing |-> {}, checked |-> 0]>>

\* Lines 81-82, reached when the existence loop is over: the schedule
\* check ends validation.
EndValidation ==
    IF ScheduleCheck(args)
    THEN pc' = StepAfter("validate") /\ UNCHANGED outcome
    ELSE Exit("ScheduleRequired")

\* Lines 63-68: the list is taken from --files, or --directory is looked
\* up (one read of the disk) and get_video_files is called.
Validate ==
    /\ UNCHANGED <<normVars, cleanVars>>
    /\ pc = "validate"
    /\ IF args.action # "upload"
       THEN /\ pc' = StepAfter("validate")
            /\ UNCHANGED <<video_files, validated, gvf, idx, outcome>>
       ELSE IF args.files # <<>>
       THEN /\ video_files' = args.files
            /\ validated' = Resolved(args.files)
            /\ pc' = "exists" /\ idx' = 1
            /\ UNCHANGED <<gvf, outcome>>
       ELSE IF Truthy(args.directory)
       THEN IF ~Exists(args.directory, fs)
            THEN /\ Exit("DirectoryNotFound")
                 /\ UNCHANGED <<video_files, validated, gvf, idx>>
            ELSE /\ gvf' = [NoCall EXCEPT !.caller = "validate"]
                 /\ pc' = "is_file"
                 /\ UNCHANGED <<video_files, validated, idx, outcome>>
       ELSE /\ video_files' = <<>>
            /\ validated' = Resolved(<<>>)
            /\ EndValidation
            /\ UNCHANGED <<gvf, idx>>
    /\ UNCHANGED <<args, fs, cookiesDir, fs_changed, publish_date, inflight,
                   trace>>

\* get_video_files returns list to its caller: validation goes on with the
\* empty-result check (lines 71-72) and the existence loop, dispatch with
\* the upload loop (line 101).
ReturnVideoFiles(list) ==
    /\ gvf' = NoCall
    /\ video_files' = list
    /\ IF gvf.caller = "validate"
       THEN /\ validated' = Resolved(list)
            /\ IF list = <<>>
               THEN Exit("NoVideoFiles") /\ idx' = 0
               ELSE pc' = "exists" /\ idx' = 1 /\ UNCHANGED outcome
       ELSE /\ UNCHANGED validated
            /\ IF list = <<>>
               THEN Exit("ok") /\ idx' = 0
               ELSE pc' = "file" /\ idx' = 1 /\ UNCHANGED outcome

\* Lines 29-31 of get_video_files: path.is_file(), one read of the disk.
IsFileStep ==
    /\ UNCHANGED <<normVars, cleanVars>>
    /\ pc = "is_file"
    /\ IF args.directory \in fs
       THEN ReturnVideoFiles(SingleFile(args.directory))
       ELSE /\ gvf' = [gvf EXCEPT !.pending = video_extensions]
            /\ pc' = "glob"
            /\ UNCHANGED <<video_files, validated, idx, outcome>>
    /\ UNCHANGED <<args, fs, cookiesDir, fs_changed, publish_date, inflight,
                   trace>>

\* Lines 34-36 of get_video_files: one path.glob per extension, each a read
\* of the disk, in the order the set gives; the sorted matches are returned
\* after the last.
GlobStep ==
    /\ UNCHANGED <<normVars, cleanVars>>
    /\ pc = "glob"
    /\ \E ext \in gvf.pending :
          LET found == gvf.found \cup Glob(args.directory, ext, fs)
          IN  IF gvf.pending = {ext}
              THEN ReturnVideoFiles(Sorted(found))
              ELSE /\ gvf' = [gvf EXCEPT !.pending = @ \ {ext},
                                         !.found = found]
                   /\ UNCHANGED <<pc, video_files, validated, idx, outcome>>
    /\ UNCHANGED <<args, fs, cookiesDir, fs_changed, publish_date, inflight,
                   trace>>

\* Lines 77-82: exists(video_file) for the path at position idx, one read
\* of the disk; after the last path, the schedule check.
ExistsStep ==
    /\ UNCHANGED <<normVars, cleanVars>>
    /\ pc = "exists"
    /\ LET there == Exists(video_files[idx], fs)
           next  == AfterCheck(idx, Len(video_files))
       IN  /\ validated' =
                 <<[validated[1] EXCEPT
                      !.checked = idx,
                      !.missing = IF there THEN @ ELSE @ \cup {idx}]>>
           /\ IF ~there
              THEN Exit("VideoFileNotFound") /\ idx' = 0
              ELSE IF next # 0
              THEN idx' = next /\ UNCHANGED <<pc, outcome>>
              ELSE EndValidation /\ idx' = 0
    /\ UNCHANGED <<args, fs, cookiesDir, video_files, gvf, fs_changed,
                   publish_date, inflight, trace>>

\* Lines 84-85: account_file.parent.mkdir(exist_ok=True).
ResolveAccountFile ==
    /\ UNCHANGED <<normVars, cleanVars>>
    /\ pc = "resolve"
    /\ cookiesDir' = TRUE
    /\ trace' = Append(trace, Event("mkdir", 0, "cookies", <<cookiesDir>>))
    /\ pc' = StepAfter("resolve")
    /\ UNCHANGED <<args, fs, video_files, validated, gvf, fs_changed, idx,
                   publish_date, inflight, outcome>>

\* Lines 88-97: the login branch up to its await.
LoginCall ==
    /\ UNCHANGED <<normVars, cleanVars>>
    /\ pc = "route" /\ args.action = "login"
    /\ inflight' = inflight \cup {<<"setup", 0>>}
    /\ trace' = Append(trace, Event("setup_call", 0, "",
                   <<AccountFile(args.platform, args.account_name), TRUE,
                     cookiesDir>>))
    /\ pc' = "login_wait"
    /\ UNCHANGED <<args, fs, cookiesDir, video_files, validated, gvf,
                   fs_changed, idx, publish_date, outcome>>

\* The awaited session establishment returns or raises.
LoginReturn ==
    /\ UNCHANGED <<normVars, cleanVars>>
    /\ pc = "login_wait"
    /\ inflight' = inflight \ {<<"setup", 0>>}
    /\ \E ok \in BOOLEAN :
          IF ok
          THEN /\ trace' = Append(trace, Event("setup_return", 0, "", <<>>))
               /\ Exit("ok")
          ELSE /\ trace' = Append(trace, Event("setup_raise", 0, "", <<>>))
               /\ Exit("PlatformError")
    /\ UNCHANGED <<args, fs, cookiesDir, video_files, validated, gvf,
                   fs_changed, idx, publish_date>>

\* Line 99: the list is resolved again, by a second call of
\* get_video_files in the directory case, then the loop starts.
Dispatch ==
    /\ UNCHANGED <<normVars, cleanVars>>
    /\ pc = "route" /\ args.action = "upload"
    /\ IF args.files # <<>>
       THEN /\ video_files' = args.files
            /\ pc' = "file" /\ idx' = 1
            /\ UNCHANGED gvf
       ELSE /\ gvf' = [NoCall EXCEPT !.caller = "dispatch"]
            /\ pc' = "is_file"
            /\ UNCHANGED <<video_files, idx>>
    /\ UNCHANGED <<args, fs, cookiesDir, validated, fs_changed, publish_date,
                   inflight, outcome, trace>>

\* handle= of the platform's setup in the upload branch (lines 112-122).
UploadHandle(platform) == platform # "douyin"

\* Where main goes once the job of file i has run (lines 128-129, 101).
AfterJob(i) ==
    IF i < Len(video_files)
    THEN [pc |-> "file", idx |-> i + 1, outcome |-> "running"]
    ELSE [pc |-> "done", idx |-> i, outcome |-> "ok"]

\* A variant that starts app.main() without awaiting it.
AwaitJobNotAwaited(i) == [pc |-> AfterJob(i).pc, idx |-> AfterJob(i).idx]

\* Where main is after issuing an awaited adapter call for file i.
AwaitSetup(i) == [pc |-> "setup_wait", idx |-> i]
AwaitJob(i) == [pc |-> "job_wait", idx |-> i]

\* Lines 102-122 for video_files[idx], up to the awaited setup.
FileStep ==
    /\ UNCHANGED <<normVars, cleanVars>>
    /\ pc = "file"
    /\ LET f    == video_files[idx]
           date == IF args.publish_type = 0 THEN <<"int", 0>>
                   ELSE parse_schedule(args.schedule)
           ex   == Event("extract", idx, f, <<>>)
       IN  IF date = <<"ValueError">>
           THEN /\ trace' = Append(trace, ex)
                /\ Exit("FormatError")
                /\ UNCHANGED <<publish_date, inflight, idx>>
           ELSE IF args.platform \notin Platforms
           THEN /\ trace' = Append(trace, ex)
                /\ Exit("WrongPlatform")
                /\ publish_date' = date
                /\ UNCHANGED <<inflight, idx>>
           ELSE /\ publish_date' = date
                /\ trace' = trace \o
                     <<ex, Event("setup_call", idx, f,
                           <<AccountFile(args.platform, args.account_name),
                             UploadHandle(args.platform), cookiesDir>>)>>
                /\ inflight' = inflight \cup {<<"setup", idx>>}
                /\ pc' = AwaitSetup(idx).pc
                /\ idx' = AwaitSetup(idx).idx
                /\ UNCHANGED outcome
    /\ UNCHANGED <<args, fs, cookiesDir, video_files, validated, gvf,
                   fs_changed>>

\* A variant that catches the failure and goes on with the next file.
OnAdapterRaiseCaught(i) == AfterJob(i)

\* What an adapter failure for file i does to main: nothing catches it.
OnAdapterRaise(i) == [pc |-> "done", idx |-> i, outcome |-> "PlatformError"]

\* The job built at lines 113-123.
UploadJob(i) ==
    <<"title", video_files[i], "tags", publish_date,
      AccountFile(args.platform, args.account_name)>>
    \o (IF args.platform = "tencent" THEN <<"LIFESTYLE">> ELSE <<>>)

\* The awaited setup returns: the job is built and app.main() awaited
\* (lines 113-128); or it raises.
SetupReturn ==
    /\ UNCHANGED <<normVars, cleanVars>>
    /\ pc = "setup_wait"
    /\ <<"setup", idx>> \in inflight
    /\ \E ok \in BOOLEAN :
          IF ok
          THEN /\ trace' = trace \o
                    <<Event("setup_return", idx, video_files[idx], <<>>),
                      Event("construct", idx, video_files[idx], UploadJob(idx)),
                      Event("job_call", idx, video_files[idx], <<>>)>>
               /\ inflight' = (inflight \ {<<"setup", idx>>})
                                  \cup {<<"job", idx>>}
               /\ pc' = AwaitJob(idx).pc
               /\ idx' = AwaitJob(idx).idx
               /\ UNCHANGED outcome
          ELSE /\ trace' = Append(trace,
                      Event("setup_raise", idx, video_files[idx], <<>>))
               /\ inflight' = inflight \ {<<"setup", idx>>}
               /\ pc' = OnAdapterRaise(idx).pc
               /\ idx' = OnAdapterRaise(idx).idx
               /\ outcome' = OnAdapterRaise(idx).outcome
    /\ UNCHANGED <<args, fs, cookiesDir, video_files, validated, gvf,
                   fs_changed, publish_date>>

\* An awaited app.main() returns or raises.  main resumes only if it is the
\* call main is waiting for.
JobReturn ==
    /\ UNCHANGED <<normVars, cleanVars>>
    /\ \E i \in {j \in 1..Len(video_files) : <<"job", j>> \in inflight} :
       /\ inflight' = inflight \ {<<"job", i>>}
       /\ \E ok \in BOOLEAN :
          LET ev   == Event(IF ok THEN "job_return" ELSE "job_raise", i,
                            video_files[i], <<>>)
              then == IF ok THEN AfterJob(i) ELSE OnAdapterRaise(i)
          IN  /\ trace' = Append(trace, ev)
              /\ IF pc = "job_wait" /\ idx = i
                 THEN pc' = then.pc /\ idx' = then.idx
                      /\ outcome' = then.outcome
                 ELSE UNCHANGED <<pc, idx, outcome>>
       /\ UNCHANGED <<args, fs, cookiesDir, video_files, validated, gvf,
                      fs_changed, publish_date>>

\* Another process creates or deletes a file while main has yet to read
\* the disk for the last time (the last glob of line 99), between any two
\* of its reads.
EnvChange ==
    /\ UNCHANGED <<normVars, cleanVars>>
    /\ pc \in {"validate", "is_file", "glob", "exists", "resolve", "route"}
    /\ \E p \in Volatile : fs' = IF p \in fs THEN fs \ {p} ELSE fs \cup {p}
    /\ fs_changed' = TRUE
    /\ UNCHANGED <<pc, args, cookiesDir, video_files, validated, gvf, idx,
                   publish_date, inflight, outcome, trace>>


(***************************************************************************)
(* The Metadata Normalizer, VideoPreprocessor.process_directory            *)
(* (video_preprocessor.py 121-155).                                        *)
(*                                                                         *)
(* A file of the directory is known by its name without the final ".mp4"   *)
(* (its key); videos maps each key present to the file it holds, named by  *)
(* the key the file had when the run began.  The stem pathlib gives a file *)
(* is its key, except for the file ".mp4", whose stem is the whole name.   *)
(* Path.rename replaces an existing target, as on POSIX, or raises.        *)
(***************************************************************************)

\* The name of the file of a key.
Mp4 == <<".", "m", "p", "4">>
FileName(key) == key \o Mp4

\* Path(name).stem (line 132): the name up to its last dot, or the whole
\* name when that dot is its first or its last character or it has none.
LastDot(name) ==
    LET dots == {k \in 1..Len(name) : name[k] = "."}
    IN  IF dots = {} THEN 0 ELSE CHOOSE k \in dots : \A j \in dots : j <= k
PathStem(name) ==
    LET i == LastDot(name)
    IN  IF 1 < i /\ i < Len(name) THEN SubSeq(name, 1, i - 1) ELSE name

\* The keys the directory's files may have; the empty one is the file
\* ".mp4", what a run makes of "[].mp4".
NormStems ==
    { <<>>, <<"a">>, <<"[", "a">>, <<"a", " ">>, <<"a", "a">>, <<"[", "]">> }

\* The configurations the Normalizer is run under.
NormConfigs ==
    [remove_patterns : { <<>>, << <<"[", "*", "]">> >> },
     translate_to_chinese : BOOLEAN, max_filename_length : {1}]
    \cup [remove_patterns : { <<>>, << <<"[", "*", "]">> >> },
          translate_to_chinese : BOOLEAN]

\* What the translation and the description requests can give.
NormTranslationReplies ==
    {Raised, Returned(<<"a", " ", "a", "a", "b">>), Returned(<<"a">>)}
GeneratedText == <<"a", " ", "#", "a">>
DescriptionReplies == {Raised, Returned(GeneratedText \o <<" ">>)}

\* Every order of a set of stems.
RECURSIVE Orders(_)
Orders(S) ==
    IF S = {} THEN {<<>>}
    ELSE UNION {{<<x>> \o o : o \in Orders(S \ {x})} : x \in S}

NoEntry ==
    [stem |-> <<>>, original_name |-> <<>>, translation |-> <<"off">>,
     new_name |-> <<>>,
     renamed |-> "-", requests |-> 0, desc |-> "-", text |-> <<>>,
     write |-> "-", txt_stem |-> <<>>, raised |-> FALSE]

NormIdle ==
    /\ npc = "idle" /\ config = <<>> /\ video_dir = FALSE /\ videos = <<>>
    /\ sidecars = <<>> /\ listing = <<>> /\ ni = 0 /\ new_name = <<>>
    /\ description = <<>> /\ nlog = <<>>

NormInit ==
    /\ npc = "start"
    /\ config \in NormConfigs
    /\ video_dir \in BOOLEAN
    /\ \E S \in SUBSET NormStems :
          /\ Cardinality(S) <= MaxVideos
          /\ (~video_dir => S = {})
          /\ videos = [st \in S |-> st]
    /\ sidecars = <<>> /\ listing = <<>> /\ ni = 0 /\ new_name = <<>>
    /\ description = <<>> /\ nlog = <<>>

\* The last entry of the log, updated.
Logged(field, value) ==
    [nlog EXCEPT ![Len(nlog)] = [@ EXCEPT ![field] = value]]

\* Lines 123-129: the directory check, and what glob("*.mp4") lists, in
\* whatever order the directory gives.
StartBatch ==
    /\ UNCHANGED <<routerVars, cleanVars>>
    /\ npc = "start"
    /\ IF ~video_dir
       THEN npc' = "done" /\ UNCHANGED <<listing, ni>>
       ELSE /\ listing' \in Orders(DOMAIN videos)
            /\ ni' = 1
            /\ npc' = IF DOMAIN videos = {} THEN "done" ELSE "clean"
    /\ UNCHANGED <<config, video_dir, videos, sidecars, new_name,
                   description, nlog>>

\* Lines 132-138: the stem is cleaned; the translation request, when one is
\* made, raises or answers.
CleanStep ==
    /\ UNCHANGED <<routerVars, cleanVars>>
    /\ npc = "clean"
    /\ \E reply \in NormTranslationReplies :
          /\ (~config.translate_to_chinese => reply = Raised)
          /\ new_name' = CleanFilename(PathStem(FileName(listing[ni])),
                                       config, reply)
          /\ nlog' = Append(nlog,
                 [NoEntry EXCEPT !.stem = listing[ni],
                                 !.original_name =
                                     PathStem(FileName(listing[ni])),
                                 !.translation =
                                     IF config.translate_to_chinese
                                     THEN reply ELSE <<"off">>,
                                 !.new_name = new_name'])
    /\ npc' = "rename"
    /\ UNCHANGED <<config, video_dir, videos, sidecars, listing, ni,
                   description>>

\* Where the loop goes after file i: the next file, or the end.
NextFile(i) ==
    IF i < Len(listing) THEN [npc |-> "clean", ni |-> i + 1]
    ELSE [npc |-> "done", ni |-> i]

\* A variant of the handler that lets the exception out of the loop.
OnFileErrorReraised(i) == [npc |-> "raised", ni |-> i]

\* Lines 154-155: the exception of file i is caught and logged.
OnFileError(i) == NextFile(i)

\* The directory after Path.rename(from, to) succeeded.
Renamed(files, from, to) ==
    [st \in (DOMAIN files \ {from}) \cup {to} |->
        IF st = to THEN files[from] ELSE files[st]]

\* A variant of the test that renames every file.
NameChangedAlways(video_file, new_video_path) == TRUE

\* Line 141: video_file != new_video_path.
NameChanged(video_file, new_video_path) == video_file # new_video_path

\* Lines 141-143: the file is renamed when its name changes; rename raises
\* or succeeds.
RenameStep ==
    /\ UNCHANGED <<routerVars, cleanVars>>
    /\ npc = "rename"
    /\ IF ~NameChanged(FileName(listing[ni]), FileName(new_name))
       THEN /\ nlog' = Logged("renamed", "same")
            /\ npc' = "describe"
            /\ UNCHANGED <<videos, ni>>
       ELSE \E ok \in BOOLEAN :
               IF ok /\ listing[ni] \in DOMAIN videos
               THEN /\ videos' = Renamed(videos, listing[ni], new_name)
                    /\ nlog' = Logged("renamed", "renamed")
                    /\ npc' = "describe"
                    /\ UNCHANGED ni
               ELSE /\ nlog' = [Logged("renamed", "failed")
                                   EXCEPT ![Len(nlog)].raised = TRUE]
                    /\ npc' = OnFileError(ni).npc
                    /\ ni' = OnFileError(ni).ni
                    /\ UNCHANGED videos
    /\ UNCHANGED <<config, video_dir, sidecars, listing, new_name,
                   description>>

\* A variant of the fallback that leaves the name out.
GetVideoDescriptionNoName(video_name, reply) ==
    IF reply = Raised THEN FallbackPrefix ELSE Strip(reply[2])

\* _get_video_description (lines 62-89): one request; its stripped answer,
\* or the fallback text when it raised.
GetVideoDescription(video_name, reply) ==
    IF reply = Raised THEN FallbackPrefix \o video_name ELSE Strip(reply[2])

\* Lines 146-147: the description request raises or answers.
DescribeStep ==
    /\ UNCHANGED <<routerVars, cleanVars>>
    /\ npc = "describe"
    /\ \E reply \in DescriptionReplies :
          /\ description' = GetVideoDescription(new_name, reply)
          /\ nlog' = [nlog EXCEPT ![Len(nlog)] =
                         [@ EXCEPT !.requests = @ + 1,
                                   !.desc = IF reply = Raised THEN "fallback"
                                            ELSE "generated",
                                   !.text = description']]
    /\ npc' = "write"
    /\ UNCHANGED <<config, video_dir, videos, sidecars, listing, ni, new_name>>

\* A variant that names the sidecar after the stem the file had.
SidecarStemOriginal(original_name, cleaned) == original_name

\* Line 147: the sidecar's stem.
SidecarStem(original_name, cleaned) == cleaned

\* How the sidecar write of lines 149-150 can go: open raises; open
\* succeeds, which creates or empties the file, and the write raises,
\* leaving the bytes of the description that reached the file; or the file
\* holds the whole encoded description.
WriteOutcomes == {"open_raises", "write_raises", "ok"}

\* What a write of text that raises can leave in the file: nothing, or any
\* leading run of its bytes short of the whole, a cut inside a character
\* included.
PartlyWritten(text) ==
    {SubSeq(Encode(text), 1, n) : n \in 0..Max(Len(Encode(text)) - 1, 0)}

\* The sidecars once file i has opened the one named txt and left bytes in it.
Written(txt, bytes, i) ==
    [st \in DOMAIN sidecars \cup {txt} |->
        IF st = txt THEN [bytes |-> bytes, by |-> i] ELSE sidecars[st]]

\* Lines 149-152: the sidecar is written.
WriteStep ==
    /\ UNCHANGED <<routerVars, cleanVars>>
    /\ npc = "write"
    /\ LET txt == SidecarStem(listing[ni], new_name)
       IN  \E how \in WriteOutcomes, part \in PartlyWritten(description) :
              IF how = "ok"
              THEN /\ sidecars' = Written(txt, Encode(description), ni)
                   /\ nlog' = [nlog EXCEPT ![Len(nlog)] =
                                  [@ EXCEPT !.write = "ok", !.txt_stem = txt]]
                   /\ npc' = NextFile(ni).npc
                   /\ ni' = NextFile(ni).ni
              ELSE /\ sidecars' = IF how = "write_raises"
                                  THEN Written(txt, part, ni) ELSE sidecars
                   /\ nlog' = [nlog EXCEPT ![Len(nlog)] =
                                  [@ EXCEPT !.write = how,
                                            !.txt_stem = txt,
                                            !.raised = TRUE]]
                   /\ npc' = OnFileError(ni).npc
                   /\ ni' = OnFileError(ni).ni
    /\ UNCHANGED <<config, video_dir, videos, listing, new_name, description>>

NormNext == StartBatch \/ CleanStep \/ RenameStep \/ DescribeStep \/ WriteStep

InitNormalizer == RouterIdle /\ NormInit /\ CleanIdle
SpecNormalizer == InitNormalizer /\ [][NormNext]_vars

Init == RouterInit /\ NormIdle /\ CleanIdle
Next ==
    \/ ParseArgs \/ Validate \/ IsFileStep \/ GlobStep \/ ExistsStep
    \/ ResolveAccountFile
    \/ LoginCall \/ LoginReturn
    \/ Dispatch \/ FileStep \/ SetupReturn \/ JobReturn
    \/ EnvChange
Spec == Init /\ [][Next]_vars

InitClean == RouterIdle /\ NormIdle /\ CleanInit
SpecClean == InitClean /\ [][CleanNext]_vars

(***************************************************************************)
(* Properties of the Task Router (checked under Spec).                     *)
(***************************************************************************)

\* How a run ends when pre-flight validation or discovery rejects it.
Rejected == {"UsageError", "DirectoryNotFound", "NoVideoFiles",
             "VideoFileNotFound", "ScheduleRequired"}

\* C1: if a path of the resolved video list does not exist when it is
\* checked, the run has ended with the not-found error and no adapter call
\* (session establishment or job run) was ever issued, for any file; and
\* main has left the existence loop only with every path of the list
\* checked.
C1_MissingPathAbortsBatch ==
    validated # <<>> =>
        /\ validated[1].missing # {}
              => /\ pc = "done"
                 /\ outcome = "VideoFileNotFound"
                 /\ AdapterEvents(trace) = {}
                 /\ inflight = {}
        /\ (pc # "exists" /\ outcome \notin {"NoVideoFiles", "VideoFileNotFound"})
              => validated[1].checked = Len(validated[1].list)

\* C1 witness: a list of at least two files whose first file exists and
\* whose later file is missing was rejected.
C1_Witness ==
    /\ outcome = "VideoFileNotFound"
    /\ validated # <<>>
    /\ Len(validated[1].list) >= 2
    /\ 1 \notin validated[1].missing
    /\ validated[1].missing # {}

\* C2: a run rejected by argument parsing, discovery or validation has done
\* nothing: no cookies directory creation, no extractor call, no adapter
\* call.
C2_RejectedRunHasNoSideEffect ==
    outcome \in Rejected => (trace = <<>> /\ inflight = {})

\* C2 witness: a directory upload that went through discovery and the
\* existence check and was rejected by the last check, the schedule check.
C2_Witness ==
    /\ outcome = "ScheduleRequired"
    /\ args.directory = "d"
    /\ Len(video_files) >= 2

\* C3: an upload with publish_type=1 and a schedule strptime rejects never
\* issues an adapter call, and once past validation it ends with the
\* format error.
C3_MalformedScheduleFails ==
    (args.action = "upload" /\ args.publish_type = 1
        /\ args.schedule \in Malformed)
        => /\ AdapterEvents(trace) = {}
           /\ (pc = "done" => outcome \in Rejected \cup {"FormatError"})

\* C4: when the format error is raised, the cookies directory has not been
\* created and the extractor has not been called.
C4_FormatErrorHasNoSideEffect ==
    outcome = "FormatError"
        => \A k \in 1..Len(trace) : trace[k].op \notin {"mkdir", "extract"}

\* C5: at most one adapter call is in flight, and whatever is done for a
\* file after the first (session establishment, job construction, job run)
\* comes after the job of the file before it has returned.
C5_StrictlySequential ==
    /\ Cardinality(inflight) <= 1
    /\ \A k \in 1..Len(trace) :
          (trace[k].op \in {"setup_call", "construct", "job_call"}
              /\ trace[k].i > 1)
          => \E m \in 1..(k - 1) :
                trace[m].op = "job_return" /\ trace[m].i = trace[k].i - 1

\* C5 witness: the job of the second file is in flight.
C5_Witness ==
    /\ pc = "job_wait" /\ idx = 2 /\ inflight = {<<"job", 2>>}

\* C6: an adapter failure for the k-th file is the last thing that happens:
\* the run has ended with it, the jobs of files 1..k-1 have returned, and
\* nothing was done for a later file.
C6_AdapterFailureEndsBatch ==
    \A k \in 1..Len(trace) :
        (trace[k].op \in {"setup_raise", "job_raise"} /\ trace[k].i >= 1)
        => /\ pc = "done" /\ outcome = "PlatformError"
           /\ k = Len(trace)
           /\ inflight = {}
           /\ \A j \in 1..(trace[k].i - 1) :
                 \E m \in 1..k : trace[m].op = "job_return" /\ trace[m].i = j
           /\ \A m \in 1..Len(trace) : trace[m].i <= trace[k].i

\* C6 witness: the second of three files failed.
C6_Witness ==
    /\ outcome = "PlatformError"
    /\ Len(video_files) = 3
    /\ idx = 2

\* The position of path p in ascending order of the path string.
PathRank(p) == CHOOSE k \in 1..Len(PathOrder) : PathOrder[k] = p

\* Whether the extension of p, compared without regard to case, is one of
\* the six video extensions.
IsVideoName(p) == Lower(Suffix[p]) \in video_extensions

\* C12: for an existing directory, no file having come or gone, the list
\* discovery returned holds exactly the files on disk under it, at any
\* depth, whose extension is a video extension in any letter case, each
\* once, in ascending order of the path.
C12_DiscoveryIsCaseInsensitive ==
    (validated # <<>> /\ args.files = <<>> /\ args.directory \in Dirs
        /\ ~fs_changed) =>
        LET list == validated[1].list
        IN  /\ {list[k] : k \in 1..Len(list)}
                  = {p \in fs : Under(args.directory, p) /\ IsVideoName(p)}
            /\ \A j, k \in 1..Len(list) :
                  j < k => PathRank(list[j]) < PathRank(list[k])

\* C13: in the directory case, a directory path that does not exist (no
\* file having come or gone) ends the run with the not-found error, a
\* discovery that finds no video ends it with the empty-result error, and
\* no run reaches the end of the dispatch phase with an empty video list.
C13_DiscoveryFailuresStopTheRun ==
    (args.action = "upload" /\ args.files = <<>>) =>
        /\ (~fs_changed /\ pc # "validate"
                /\ ~Exists(args.directory, fs))
               => outcome = "DirectoryNotFound"
        /\ (validated # <<>> /\ validated[1].list = <<>>)
               => outcome \in {"DirectoryNotFound", "NoVideoFiles"}
        /\ ~(pc = "done" /\ outcome = "ok" /\ video_files = <<>>)

\* C14: an upload that passed discovery and the existence check is rejected
\* by the schedule check exactly when publish_type is 1 and no non-empty
\* schedule was given; with publish_type 0, or with a schedule string, it
\* is not.
C14_ScheduleRequiredIffScheduled ==
    (args.action = "upload" /\ validated # <<>>
        /\ outcome # "NoVideoFiles"
        /\ validated[1].checked = Len(validated[1].list)
        /\ validated[1].missing = {}) =>
        IF args.publish_type = 1 /\ args.schedule \in {None, ""}
        THEN pc = "done" /\ outcome = "ScheduleRequired"
        ELSE outcome # "ScheduleRequired"

\* C14 witness: publish_type 1 with an empty schedule string, on a list of
\* existing files, was rejected by the schedule check.
C14_Witness ==
    /\ outcome = "ScheduleRequired"
    /\ args.publish_type = 1
    /\ args.schedule = ""
    /\ args.files # <<>>
    /\ validated[1].checked = Len(args.files)
    /\ validated[1].missing = {}

\* C15: in a login run, once the credential path is resolved the cookies
\* directory exists, whether or not it existed before, and the session
\* establishment is invoked after that, with interactive handling enabled,
\* on <base>/cookies/<platform>_<account>.json, the directory existing
\* at the time of the call.
C15_LoginCreatesCookiesDirFirst ==
    args.action = "login" =>
        /\ (pc \in {"route", "login_wait"} =>
               /\ cookiesDir
               /\ \E m \in 1..Len(trace) : trace[m].op = "mkdir")
        /\ \A k \in 1..Len(trace) :
              trace[k].op = "setup_call" =>
                 /\ \E m \in 1..(k - 1) :
                       trace[m].op = "mkdir" /\ trace[m].file = "cookies"
                 /\ trace[k].info =
                       << <<"cookies", args.platform \o "_"
                                         \o args.account_name \o ".json">>,
                          TRUE, TRUE >>

\* C15 witness: a login on tencent is waiting for the session
\* establishment, the cookies directory having been absent at the start.
C15_Witness ==
    /\ pc = "login_wait"
    /\ args.platform = "tencent"
    /\ trace[1].op = "mkdir" /\ trace[1].info = <<FALSE>>
    /\ trace[2].op = "setup_call"
    /\ cookiesDir

\* C18: every job constructed carries, with publish_type 1, the instant
\* parsed from the schedule string, and with publish_type 0 the immediate
\* sentinel 0, whether or not a schedule string was given.
C18_PublishValueMatchesMode ==
    \A k \in 1..Len(trace) :
        trace[k].op = "construct" =>
            IF args.publish_type = 1
            THEN /\ args.schedule \in WellFormed
                 /\ trace[k].info[4] = <<"datetime", args.schedule>>
            ELSE trace[k].info[4] = <<"int", 0>>

\* C18 witness: with publish_type 0 and a schedule string supplied, the job
\* of the second file was constructed with the immediate sentinel.
C18_Witness ==
    /\ args.action = "upload"
    /\ args.publish_type = 0
    /\ args.schedule \in WellFormed
    /\ \E k \in 1..Len(trace) :
          /\ trace[k].op = "construct" /\ trace[k].i = 2
          /\ trace[k].info[4] = <<"int", 0>>

\* C19: in the directory case the list dispatched is the list validation
\* checked: the upload loop runs over that list, every file handed to the
\* extractor or to a job is on it, and a run that passed the empty-result
\* check and ended normally has run at least one job.
C19_DispatchedListIsValidatedList ==
    (args.action = "upload" /\ args.files = <<>> /\ validated # <<>>) =>
        LET checked == {validated[1].list[j] :
                           j \in 1..Len(validated[1].list)}
        IN  /\ (pc \in {"file", "setup_wait", "job_wait"}
                   => video_files = validated[1].list)
            /\ \A k \in 1..Len(trace) :
                  trace[k].op \in {"extract", "job_call"}
                      => trace[k].file \in checked
            /\ ((Truthy(args.directory) /\ pc = "done" /\ outcome = "ok")
                   => \E k \in 1..Len(trace) : trace[k].op = "job_return")

(***************************************************************************)
(* Properties of the Metadata Normalizer (checked under SpecNormalizer).   *)
(***************************************************************************)

\* Whether text t holds text part as a contiguous piece.
Contains(t, part) == \E q \in 1..(Len(t) + 1) : OccursAt(t, part, q)

\* The files whose processing is over.
Finished == {i \in 1..Len(nlog) : i < ni \/ npc = "done"}

\* C7: the batch never aborts on a file's error: no exception leaves the
\* loop, the loop is always at a step of a listed file until the run is
\* done, and when it is done every listed file has been attempted, in the
\* order listed.
C7_BatchNeverAborts ==
    /\ npc \in {"start", "clean", "rename", "describe", "write", "done"}
    /\ (npc \in {"clean", "rename", "describe", "write"}
            => ni \in 1..Len(listing))
    /\ (npc = "done" =>
            /\ Len(nlog) = Len(listing)
            /\ \A i \in 1..Len(listing) : nlog[i].stem = listing[i])

\* C7 witness: the run is done, the first file's rename failed and the
\* second file's sidecar write failed after the open.
C7_Witness ==
    /\ npc = "done"
    /\ Len(nlog) = 2
    /\ nlog[1].renamed = "failed"
    /\ nlog[2].write = "write_raises"

\* Whether bytes is a leading run of the bytes of text, short of the whole.
CutShort(bytes, text) ==
    /\ Len(bytes) < Len(Encode(text))
    /\ bytes = SubSeq(Encode(text), 1, Len(bytes))

\* What holds of a file whose description request failed, in every state:
\* one request was made, the description is the fallback text, which holds
\* the cleaned stem, no exception left the loop, and once the file is
\* finished its sidecar write has been attempted.
FallbackSubstituted ==
    /\ npc # "raised"
    /\ \A i \in 1..Len(nlog) :
          nlog[i].desc = "fallback" =>
             /\ nlog[i].requests = 1
             /\ nlog[i].text = FallbackPrefix \o nlog[i].new_name
             /\ Contains(nlog[i].text, nlog[i].new_name)
             /\ (i \in Finished => nlog[i].write \in WriteOutcomes)

\* What the sidecar write of a file whose description request failed does:
\* the loop goes on, and the sidecar of the cleaned stem holds the whole
\* encoded fallback text when the write succeeded and a leading run of its
\* bytes when the write raised after the open; when the open raised no
\* sidecar changes; no other sidecar is touched.
FallbackWritten ==
    (npc = "write" /\ nlog[ni].desc = "fallback") =>
        LET stem     == nlog[ni].new_name
            fallback == FallbackPrefix \o stem
            how      == nlog'[ni].write
        IN  /\ npc' \in {"clean", "done"}
            /\ how \in WriteOutcomes
            /\ how = "ok" =>
                  /\ stem \in DOMAIN sidecars'
                  /\ sidecars'[stem].bytes = Encode(fallback)
            /\ how = "write_raises" =>
                  /\ stem \in DOMAIN sidecars'
                  /\ CutShort(sidecars'[stem].bytes, fallback)
            /\ how = "open_raises" => sidecars' = sidecars
            /\ \A st \in DOMAIN sidecars \ {stem} :
                  st \in DOMAIN sidecars' /\ sidecars'[st] = sidecars[st]

\* C8 as stated: a file whose description request failed had exactly one
\* request, its description is the fallback text, which holds the cleaned
\* stem, the exception did not leave the loop, and the sidecar of the
\* cleaned stem was written.
C8_DescriptionFailureStillWritesSidecar ==
    /\ npc # "raised"
    /\ \A i \in Finished :
          nlog[i].desc = "fallback" =>
             /\ nlog[i].requests = 1
             /\ nlog[i].text = FallbackPrefix \o nlog[i].new_name
             /\ nlog[i].write = "ok"
             /\ nlog[i].new_name \in DOMAIN sidecars

\* C8 amended: a file whose description request failed had exactly one
\* request, its description is the fallback text, which holds the cleaned
\* stem, the exception did not leave the loop, and the sidecar write is
\* made with that text: as the write step ends, the sidecar of the cleaned
\* stem holds the whole encoded fallback text when open and write
\* succeeded, a leading run of its bytes short of the whole when the write
\* raised after the open, and no sidecar has changed when the open raised;
\* in each case the loop goes on to the next file.
C8_DescriptionFailureFallsBack ==
    []FallbackSubstituted /\ [][FallbackWritten]_vars

\* C8 witness: a renamed file, with a stem that is not empty, whose
\* description request failed and whose sidecar holds the fallback.
C8_Witness ==
    /\ npc = "done"
    /\ Len(nlog) >= 1
    /\ nlog[Len(nlog)].desc = "fallback"
    /\ nlog[Len(nlog)].renamed = "renamed"
    /\ nlog[Len(nlog)].new_name # <<>>
    /\ nlog[Len(nlog)].write = "ok"
    /\ nlog[Len(nlog)].new_name \in DOMAIN sidecars
    /\ sidecars[nlog[Len(nlog)].new_name].bytes
          = Encode(FallbackPrefix \o nlog[Len(nlog)].new_name)

\* The texts a sidecar named stem may hold.
SidecarTexts(stem) ==
    {GetVideoDescription(stem, r) : r \in DescriptionReplies}

\* C9 as stated: when the run is done, every listed file has a sidecar of
\* its cleaned stem, holding the generated description or the fallback,
\* whatever failed while it was processed.
C9_EveryFileHasSidecar ==
    npc = "done" =>
        \A i \in 1..Len(listing) :
            /\ i <= Len(nlog)
            /\ nlog[i].new_name \in DOMAIN sidecars
            /\ sidecars[nlog[i].new_name].bytes
                  \in {Encode(t) : t \in SidecarTexts(nlog[i].new_name)}

\* The files whose sidecar open succeeded, and the last of them to open the
\* sidecar of a stem.
Openers == {j \in 1..Len(nlog) : nlog[j].write \in {"ok", "write_raises"}}
LastOpener(stem) ==
    CHOOSE j \in Openers :
        /\ nlog[j].new_name = stem
        /\ \A k \in Openers : nlog[k].new_name = stem => k <= j

\* C9 amended: when the run is done, every listed file was attempted; a
\* file whose rename, open and write did not raise has a sidecar of its
\* cleaned stem, whatever the translation and description requests did;
\* sidecars exist under the cleaned stems of the files whose open succeeded
\* and under no other name, so a file whose rename or open raised adds
\* none; and each sidecar holds what the last file that opened it left:
\* the whole encoded description of that file, generated or fallback, when
\* its write succeeded, a leading run of those bytes short of the whole
\* when its write raised.
C9_EveryFileHasSidecarUnlessIOFails ==
    npc = "done" =>
        /\ Len(nlog) = Len(listing)
        /\ \A i \in 1..Len(nlog) :
              (nlog[i].renamed # "failed" /\ nlog[i].write = "ok")
                  => nlog[i].new_name \in DOMAIN sidecars
        /\ \A i \in 1..Len(nlog) :
              (nlog[i].renamed = "failed" \/ nlog[i].write = "open_raises")
                  => i \notin Openers
        /\ DOMAIN sidecars = {nlog[j].new_name : j \in Openers}
        /\ \A st \in DOMAIN sidecars :
              LET j == LastOpener(st)
              IN  /\ nlog[j].text \in SidecarTexts(st)
                  /\ IF nlog[j].write = "ok"
                     THEN sidecars[st].bytes = Encode(nlog[j].text)
                     ELSE CutShort(sidecars[st].bytes, nlog[j].text)

\* C9 witness: two files were renamed; the translation and the description
\* requests failed for one of them, and both have their sidecar.
C9_Witness ==
    /\ npc = "done"
    /\ Len(nlog) = 2
    /\ config.translate_to_chinese
    /\ nlog[1].renamed = "renamed" /\ nlog[1].write = "ok"
    /\ nlog[1].translation = Raised
    /\ nlog[1].desc = "fallback"
    /\ nlog[2].renamed = "renamed" /\ nlog[2].write = "ok"
    /\ nlog[1].new_name # nlog[2].new_name
    /\ nlog[1].new_name \in DOMAIN sidecars
    /\ nlog[2].new_name \in DOMAIN sidecars

\* Whether key names what a run under cfg made of one of the directory's
\* files.
PreviouslyCleaned(key, cfg) ==
    \E f \in NormStems, r \in NormTranslationReplies :
        /\ (~cfg.translate_to_chinese => r = Raised)
        /\ CleanFilename(PathStem(FileName(f)), cfg, r) = key

\* The already-cleaned files: the file is named after the stem a previous
\* run computed, no remove-pattern matches that stem and it is within the
\* length bound.
AlreadyCleaned(i) ==
    /\ nlog[i].renamed # "-"
    /\ PreviouslyCleaned(nlog[i].stem, config)
    /\ ApplyPatterns(nlog[i].stem, config.remove_patterns) = nlog[i].stem
    /\ Len(nlog[i].stem) <= ConfiguredMaxLen(config)

\* C16: for an already-cleaned file the run computes the same stem and
\* performs no rename, so the file keeps its name.
C16_Idempotent ==
    \A i \in 1..Len(nlog) :
        AlreadyCleaned(i) =>
            /\ nlog[i].new_name = nlog[i].stem
            /\ nlog[i].renamed = "same"
            /\ (i \in Finished => nlog[i].stem \in DOMAIN videos)

\* C20: when the run is done the directory holds as many video files as
\* were listed, and no two files had their sidecar written under the same
\* name.
C20_NoVideoLost ==
    npc = "done" =>
        /\ Cardinality(DOMAIN videos) = Len(listing)
        /\ \A i, j \in 1..Len(nlog) :
              (i < j /\ nlog[i].write = "ok" /\ nlog[j].write = "ok")
                  => nlog[i].txt_stem # nlog[j].txt_stem

(***************************************************************************)
(* Properties of _clean_filename (checked under SpecClean).                *)
(***************************************************************************)

\* C10: the stem _clean_filename returns is no longer than the configured
\* max_filename_length, 100 when none is configured.
C10_CleanedLengthBounded ==
    cpc = "done" => Len(cout) <= ConfiguredMaxLen(cin.config)

\* C10 witness: with no configured length, a translation longer than 100
\* characters came back and the result has 100 characters.
C10_Witness ==
    /\ cpc = "done"
    /\ "max_filename_length" \notin DOMAIN cin.config
    /\ cin.config.translate_to_chinese
    /\ Len(TranslateText(cin.filename, cin.reply)) > DefaultMaxLen
    /\ Len(cout) = DefaultMaxLen

\* The positions of the wildcard token in a pattern.
Wildcards(pattern) == {k \in 1..Len(pattern) : pattern[k] = "*"}

\* The literal text before and after the wildcard of a pattern that has one.
LeftOf(pattern) ==
    SubSeq(pattern, 1, (CHOOSE k \in Wildcards(pattern) : TRUE) - 1)
RightOf(pattern) ==
    SubSeq(pattern, (CHOOSE k \in Wildcards(pattern) : TRUE) + 1, Len(pattern))

\* The reference rule: split on the wildcard, escape each segment, join
\* with the non-greedy any-characters match.
ReferenceRegex(pattern) ==
    ReEscape(LeftOf(pattern)) \o LazyAny \o ReEscape(RightOf(pattern))

\* s with every span deleted that starts with the literal text l and ends
\* at the nearest following literal text r, scanning from the left.  A span
\* of no characters deletes nothing.
RECURSIVE SpanDelete(_, _, _)
SpanDelete(s, l, r) ==
    IF s = <<>> THEN <<>>
    ELSE LET q == IF OccursAt(s, l, 1) THEN Find(s, r, 1 + Len(l)) ELSE 0
         IN  IF q # 0 /\ q + Len(r) > 1
             THEN SpanDelete(Drop(s, q + Len(r)), l, r)
             ELSE <<Head(s)>> \o SpanDelete(Tail(s), l, r)

\* What the claim says pattern removes from s: the spans of a pattern with
\* one wildcard, the exact occurrences of a pattern with none.
SpecifiedRemoval(s, pattern) ==
    IF Wildcards(pattern) = {}
    THEN SpanDelete(s, pattern, <<>>)
    ELSE SpanDelete(s, LeftOf(pattern), RightOf(pattern))

\* The pattern "[*]" and the text the example is left as.
BracketPattern == <<"[", "*", "]">>
SongTrack == <<"S", "o", "n", "g", " ", " ", "T", "r", "a", "c", "k">>

\* What C17 says of pattern k of the configuration, applied to the stem.
C17_PatternAsSpecified(k) ==
    LET p == cin.config.remove_patterns[k]
    IN  /\ Cardinality(Wildcards(p)) = 1
              => RegexPattern(p) = ReferenceRegex(p)
        /\ ApplyPattern(cin.filename, p) = SpecifiedRemoval(cin.filename, p)
        /\ (p = BracketPattern /\ cin.filename = SongExample)
              => ApplyPattern(cin.filename, p) = SongTrack
        /\ (Len(cin.config.remove_patterns) = 1
                /\ ~cin.config.translate_to_chinese)
              => cout = Strip(Truncate(
                            StripSpecial(SpecifiedRemoval(cin.filename, p)),
                            ConfiguredMaxLen(cin.config)))

\* C17 as stated: every pattern with one wildcard, L*R, deletes the spans
\* from L to the nearest following R, its regular expression being that of
\* the reference rule, and a pattern without wildcard deletes its exact
\* occurrences; "[*]" leaves "Song  Track" of the example.
C17_WildcardDeletesSpans ==
    cpc = "done" =>
        \A k \in 1..Len(cin.config.remove_patterns) :
            Cardinality(Wildcards(cin.config.remove_patterns[k])) <= 1
                => C17_PatternAsSpecified(k)

\* C17 amended: the same for every pattern with one wildcard and some
\* literal text, and for every pattern without wildcard; the pattern that
\* is the wildcard alone has the regular expression of the reference rule
\* and deletes the whole stem.
C17_WildcardWithLiteralDeletesSpans ==
    cpc = "done" =>
        \A k \in 1..Len(cin.config.remove_patterns) :
            LET p == cin.config.remove_patterns[k]
            IN  IF p = <<"*">>
                THEN /\ RegexPattern(p) = ReferenceRegex(p)
                     /\ ApplyPattern(cin.filename, p) = <<>>
                ELSE Cardinality(Wildcards(p)) <= 1
                        => C17_PatternAsSpecified(k)

\* C17 witness: the example stem was cleaned under the single pattern
\* "[*]" and the bracketed span is gone.
C17_Witness ==
    /\ cpc = "done"
    /\ cin.filename = SongExample
    /\ cin.config.remove_patterns = <<BracketPattern>>
    /\ ~cin.config.translate_to_chinese
    /\ "max_filename_length" \notin DOMAIN cin.config
    /\ cout = SongTrack

\* The text of n blanks.
Blanks(n) == [i \in 1..n |-> " "]

\* Where the length limit applied: the name before truncation was longer
\* than the configured maximum.
C11_Truncated ==
    /\ cpc = "done"
    /\ Len(BeforeTruncation(cin.filename, cin.config, cin.reply))
          > ConfiguredMaxLen(cin.config)

\* C11 as stated: whenever the name, after pattern removal, translation and
\* special-character stripping, is longer than max_filename_length, the
\* cleaned stem has exactly max_filename_length characters.
C11_TruncatedToExactlyMax ==
    C11_Truncated => Len(cout) = ConfiguredMaxLen(cin.config)

\* C11 amended: in that case the cleaned stem is the first
\* max_filename_length characters of the name with the blanks at both ends
\* removed: at most max_filename_length characters, and exactly that many
\* when the kept part neither begins nor ends with a blank.
C11_TruncatedThenTrimmed ==
    C11_Truncated =>
        LET m    == ConfiguredMaxLen(cin.config)
            kept == SubSeq(BeforeTruncation(cin.filename, cin.config,
                                            cin.reply), 1, m)
        IN  /\ Len(cout) <= m
            /\ \E lead \in 0..m, trail \in 0..m :
                   kept = Blanks(lead) \o cout \o Blanks(trail)
            /\ (cout # <<>> =>
                   cout[1] \notin SpaceChars /\ cout[Len(cout)] \notin SpaceChars)
            /\ ((m > 0 /\ kept[1] \notin SpaceChars /\ kept[m] \notin SpaceChars)
                   => Len(cout) = m)

\* C11 witness: a name of three characters was cut to a maximum of two and
\* the cleaned stem has exactly two characters, the first two of the name.
C11_Witness ==
    /\ C11_Truncated
    /\ ConfiguredMaxLen(cin.config) = 2
    /\ Len(cout) = 2
    /\ cout # SubSeq(BeforeTruncation(cin.filename, cin.config, cin.reply),
                     2, 3)

====
